---- MODULE Spec2Model ----
(***************************************************************************)
(* Lorenz84 (CDSK/__Lorenz84.py): the time forcings, the resolution of the *)
(* forcing at construction and the vectorised right-hand side _equation.   *)
(*                                                                         *)
(* Numbers are rationals <<numerator, denominator>> in lowest terms with a *)
(* positive denominator.  The inputs of the derivative calls are dyadic    *)
(* rationals of a few bits for which every intermediate value of the code  *)
(* is representable, so that exact arithmetic is the arithmetic of the     *)
(* program there.  The division of TimeForcing.linear is not exact: linear *)
(* rounds as the floating-point format of its argument does.               *)
(* numpy arrays are sequences of numbers living on a heap of objects, so   *)
(* that aliasing is observable.                                            *)
(***************************************************************************)
EXTENDS Integers, Sequences, FiniteSets

VARIABLES self, self0, Farg, counter, heap, call, hist, tf

vars == <<self, self0, Farg, counter, heap, call, hist, tf>>

(***************************************************************************)
(* Bounds of the model.                                                    *)
(***************************************************************************)
\* the longest state vector holds MaxOrbits complete orbits (plus a tail)
MaxOrbits == 2
\* the models are built with size in 1..MaxSize
MaxSize == 2
\* the stateful user callable is invoked at most MaxCount times
MaxCount == 2
\* the logged runs make at most MaxCalls derivative calls
MaxCalls == 3
\* the forcing runs make at most MaxEvals direct TimeForcing evaluations
MaxEvals == 2

(***************************************************************************)
(* The arithmetic of the host: exact rationals, and their rounding.       *)
(***************************************************************************)
Abs(x) == IF x < 0 THEN -x ELSE x

RECURSIVE GCD(_, _)
GCD(m, n) == IF n = 0 THEN m ELSE GCD(n, m % n)

\* the rational n/d (d # 0) in lowest terms
Q(n, d) ==
    LET s == IF d < 0 THEN -1 ELSE 1
        g == GCD(Abs(n), Abs(d))
    IN  <<(s * n) \div g, (s * d) \div g>>

num(n) == <<n, 1>>

add(p, q) == Q(p[1] * q[2] + q[1] * p[2], p[2] * q[2])
sub(p, q) == Q(p[1] * q[2] - q[1] * p[2], p[2] * q[2])
mul(p, q) == Q(p[1] * q[1], p[2] * q[2])
div(p, q) == Q(p[1] * q[2], p[2] * q[1])
neg(p)    == <<-p[1], p[2]>>

\* a/b < c/d for b, d > 0, by integer parts and then the fractions inverted
\* (no cross product, which could overflow)
RECURSIVE ltFrac(_, _, _, _)
ltFrac(a, b, c, d) ==
    IF a \div b # c \div d THEN a \div b < c \div d
    ELSE IF c % d = 0 THEN FALSE
    ELSE IF a % b = 0 THEN TRUE
    ELSE ltFrac(d, c % d, b, a % b)

lt(p, q)  == ltFrac(p[1], p[2], q[1], q[2])
le(p, q)  == ~lt(q, p)

\* the significand of the floating-point format of the times given to
\* TimeForcing.linear: the 24 bits of np.float32 (a Python float has 53,
\* and rounds the same way at a finer spacing)
Precision == 24

RECURSIVE Pow2(_)
Pow2(k) == IF k = 0 THEN 1 ELSE 2 * Pow2(k - 1)

\* (i + r/d) * 2^k, doubled until i has Precision bits, then rounded to the
\* nearest integer, ties to even
RECURSIVE RoundScaled(_, _, _, _)
RoundScaled(i, r, d, k) ==
    IF i < Pow2(Precision - 1)
    THEN RoundScaled(2 * i + (2 * r) \div d, (2 * r) % d, d, k + 1)
    ELSE LET up == 2 * r > d \/ (2 * r = d /\ i % 2 = 1)
         IN  Q(IF up THEN i + 1 ELSE i, Pow2(k))

\* q rounded to the nearest number of Precision significant bits
\* (|q| < 2^Precision)
fl(q) ==
    IF q[1] = 0 THEN q
    ELSE LET a == Abs(q[1])
             m == RoundScaled(a \div q[2], a % q[2], q[2], 0)
         IN  IF q[1] < 0 THEN neg(m) ELSE m

\* np.sin( t * 2. * np.pi / 73. ) where t is a whole number of quarter
\* periods: the sine of 0, pi/2, pi, 3pi/2 (mod 2pi)
sinYear(t) ==
    LET k == div(mul(t, num(4)), num(73))
    IN  CASE k[1] % 4 = 0 -> num(0)
          [] k[1] % 4 = 1 -> num(1)
          [] k[1] % 4 = 2 -> num(0)
          [] k[1] % 4 = 3 -> num(-1)

\* the times a quarter period apart: q quarters of the 73-unit year
Quarter(q) == Q(q * 73, 4)

(***************************************************************************)
(* Lorenz84.TimeForcing                                                    *)
(***************************************************************************)
constantAs5(t) == num(5)

constant(t) == num(6)

cyclic(t) == add(Q(19, 2), mul(num(2), sinYear(t)))

\* the default of the parameter tcc of linear
tccDefault == num(100 * 73)

linearNoRamp(t, tcc) ==
    IF lt(t, tcc) THEN num(0) ELSE fl(mul(num(-2), fl(sub(t, tcc))))

\* 0 if t < tcc else -2 * ( t - tcc ) / tcc, each operation rounded
linear(t, tcc) ==
    IF lt(t, tcc) THEN num(0)
    ELSE fl(div(fl(mul(num(-2), fl(sub(t, tcc)))), tcc))

(***************************************************************************)
(* Forcing objects.  A value that can be passed as F, or be stored in      *)
(* self.F, is described by what the constructor tests: callable(F),        *)
(* type(F) == str, and its value.                                          *)
(***************************************************************************)
Obj(c, s, v) == [callable |-> c, str |-> s, val |-> v]

None      == Obj(FALSE, FALSE, "None")
Str(v)    == Obj(FALSE, TRUE, v)
Number(v) == Obj(FALSE, FALSE, v)

\* the functions of Lorenz84.TimeForcing and the lambda of line 148
TFconstant   == Obj(TRUE, FALSE, "TimeForcing.constant")
TFcyclic     == Obj(TRUE, FALSE, "TimeForcing.cyclic")
TFlinear     == Obj(TRUE, FALSE, "TimeForcing.linear")
CyclicLinear == Obj(TRUE, FALSE, "lambda t : cyclic(t) + linear(t)")

\* callables of the user: t -> t, a closure that counts its invocations,
\* and a callable instance of a subclass of str whose text is "cyclic"
UserRamp      == Obj(TRUE, FALSE, "ramp")
UserCounter   == Obj(TRUE, FALSE, "counter")
UserStrCyclic == Obj(TRUE, FALSE, "cyclic")

BuiltIn == {TFconstant, TFcyclic, TFlinear, CyclicLinear}
Tokens  == {"cyclic", "linear", "cyclic-linear"}

\* the values passed as F
Fargs ==
    {None, Str("cyclic"), Str("linear"), Str("cyclic-linear"), Str("cyclik"),
     Number("42"), UserRamp, UserCounter, UserStrCyclic}

\* what F(t) returns, by the code of F
Apply(F, t, cnt) ==
    CASE F = TFconstant    -> [val |-> constant(t), cnt |-> cnt]
      [] F = TFcyclic      -> [val |-> cyclic(t), cnt |-> cnt]
      [] F = TFlinear      -> [val |-> linear(t, tccDefault), cnt |-> cnt]
      [] F = CyclicLinear  ->
            [val |-> add(cyclic(t), linear(t, tccDefault)), cnt |-> cnt]
      [] F = UserRamp      -> [val |-> t, cnt |-> cnt]
      [] F = UserCounter   -> [val |-> num(cnt), cnt |-> cnt + 1]
      [] F = UserStrCyclic -> [val |-> num(0), cnt |-> cnt]

InvokeMemoised(F, t, cnt) ==
    IF hist = <<>> THEN Apply(F, t, cnt) ELSE Apply(F, hist[Len(hist)].t, cnt)

\* F(t) for a callable F: the value returned and the closure's new count
Invoke(F, t, cnt) == Apply(F, t, cnt)

(***************************************************************************)
(* Lorenz84.__init__                                                       *)
(***************************************************************************)
ResolveTokenFirst(F) ==
    IF F.val = "cyclic" THEN TFcyclic
    ELSE IF F.val = "linear" THEN TFlinear
    ELSE IF F.val = "cyclic-linear" THEN CyclicLinear
    ELSE IF F.callable THEN F
    ELSE IF F.str THEN None
    ELSE TFconstant

\* lines 139-150: self.F = None, then the if / elif / else chain
Resolve(F) ==
    IF F.callable THEN F
    ELSE IF F.str
         THEN IF F.val = "cyclic" THEN TFcyclic
              ELSE IF F.val = "linear" THEN TFlinear
              ELSE IF F.val = "cyclic-linear" THEN CyclicLinear
              ELSE None
         ELSE TFconstant

init(a, b, G, F, size) ==
    [a |-> a, b |-> b, G |-> G, F |-> Resolve(F), size |-> size]

(***************************************************************************)
(* numpy: one-dimensional arrays, strided views, broadcasting.  The value  *)
(* of an expression is [err, v]: err when numpy raises ValueError          *)
(* (operands could not be broadcast together).                             *)
(***************************************************************************)
Ok(v)     == [err |-> FALSE, v |-> v]
Raise     == [err |-> TRUE, v |-> <<>>]
Scalar(r) == Ok(<<r>>)

\* the shape of A op B for the shapes (m,) and (n,): equal, or one of them
\* is 1 and is stretched; -1 when numpy cannot broadcast them
BroadcastLen(m, n) ==
    IF m = n THEN m ELSE IF m = 1 THEN n ELSE IF n = 1 THEN m ELSE -1

\* element i of V stretched to the broadcast shape
At(V, i) == IF Len(V) = 1 THEN V[1] ELSE V[i]

Broadcastable(A, B) ==
    ~A.err /\ ~B.err /\ BroadcastLen(Len(A.v), Len(B.v)) # -1

\* A + B, A - B, A * B element by element
Add(A, B) ==
    IF ~Broadcastable(A, B) THEN Raise
    ELSE Ok([i \in 1..BroadcastLen(Len(A.v), Len(B.v)) |->
                add(At(A.v, i), At(B.v, i))])

Sub(A, B) ==
    IF ~Broadcastable(A, B) THEN Raise
    ELSE Ok([i \in 1..BroadcastLen(Len(A.v), Len(B.v)) |->
                sub(At(A.v, i), At(B.v, i))])

Mul(A, B) ==
    IF ~Broadcastable(A, B) THEN Raise
    ELSE Ok([i \in 1..BroadcastLen(Len(A.v), Len(B.v)) |->
                mul(At(A.v, i), At(B.v, i))])

\* - A and A**2
Neg(A) == IF A.err THEN Raise ELSE Ok([i \in 1..Len(A.v) |-> neg(A.v[i])])

Square(A) ==
    IF A.err THEN Raise ELSE Ok([i \in 1..Len(A.v) |-> mul(A.v[i], A.v[i])])

\* the number of elements of X[k::3]
StridedLen(len, k) == IF len > k THEN (len - k + 2) \div 3 ELSE 0

StridedReversed(X, k) ==
    LET n == StridedLen(Len(X), k)
    IN  Ok([i \in 1..n |-> X[k + 3 * (n - i) + 1]])

\* X[k::3]: the elements at the 0-based indices k, k+3, k+6, ...
Strided(X, k) ==
    Ok([i \in 1..StridedLen(Len(X), k) |-> X[k + 3 * (i - 1) + 1]])

\* D[k::3] = V: V is broadcast to the shape of the view, or numpy raises
SetStrided(D, k, V) ==
    LET n == StridedLen(Len(D), k)
    IN  IF V.err \/ ~(Len(V.v) = n \/ Len(V.v) = 1) THEN Raise
        ELSE Ok([j \in 1..Len(D) |->
                    IF j > k /\ (j - 1 - k) % 3 = 0
                    THEN IF Len(V.v) = n THEN V.v[((j - 1 - k) \div 3) + 1]
                         ELSE V.v[1]
                    ELSE D[j]])

zerosAliased(h, xid) == [heap |-> h, id |-> xid]

\* dX = np.zeros(X.shape): a new object on the heap
zeros(h, xid) ==
    [heap |-> Append(h, [j \in 1..Len(h[xid]) |-> num(0)]), id |-> Len(h) + 1]

(***************************************************************************)
(* Lorenz84._equation                                                      *)
(***************************************************************************)
\* - X[1::3]**2 - X[2::3]**2 - self.a * X[::3]
Rhs155(slf, X) ==
    LET X0 == Strided(X, 0)
        X1 == Strided(X, 1)
        X2 == Strided(X, 2)
        T1 == Neg(Square(X1))
        T2 == Sub(T1, Square(X2))
    IN  Sub(T2, Mul(Scalar(slf.a), X0))

AddForcingPerOrbit(slf, T, t, cnt) ==
    LET n    == Len(T.v)
        rets == [i \in 1..n |-> Invoke(slf.F, t, cnt + i - 1).val]
    IN  [v    |-> Ok([i \in 1..n |-> add(T.v[i], mul(slf.a, rets[i]))]),
         log  |-> [i \in 1..n |-> t],
         rets |-> rets,
         cnt  |-> IF n = 0 THEN cnt ELSE Invoke(slf.F, t, cnt + n - 1).cnt]

\* T + self.a * self.F(t): F is invoked, its value scaled and broadcast
AddForcing(slf, T, t, cnt) ==
    LET r == Invoke(slf.F, t, cnt)
    IN  [v    |-> Add(T, Scalar(mul(slf.a, r.val))),
         log  |-> <<t>>,
         rets |-> <<r.val>>,
         cnt  |-> r.cnt]

Rhs156Plus(slf, X) ==
    LET X0 == Strided(X, 0)
        X1 == Strided(X, 1)
        X2 == Strided(X, 2)
        T1 == Mul(X0, X1)
        T2 == Mul(Mul(Scalar(slf.b), X0), X2)
    IN  Add(Sub(Add(T1, T2), X1),
                  Scalar(slf.G))

\* X[::3] * X[1::3] - self.b * X[::3] * X[2::3] - X[1::3] + self.G
Rhs156(slf, X) ==
    LET X0 == Strided(X, 0)
        X1 == Strided(X, 1)
        X2 == Strided(X, 2)
        T1 == Mul(X0, X1)
        T2 == Mul(Mul(Scalar(slf.b), X0), X2)
    IN  Add(Sub(Sub(T1, T2), X1),
                  Scalar(slf.G))

\* X[::3] * X[2::3] + self.b * X[::3] * X[1::3] - X[2::3]
Rhs157(slf, X) ==
    LET X0 == Strided(X, 0)
        X1 == Strided(X, 1)
        X2 == Strided(X, 2)
        T1 == Mul(X0, X2)
        T2 == Mul(Mul(Scalar(slf.b), X0), X1)
    IN  Sub(Add(T1, T2), X2)

\* what a call leaves behind: the heap, how it ended, the object returned
\* (0: none), the arguments and results of the invocations of self.F, and
\* the count of the user's closure
Ended(h, outcome, ret, log, rets, cnt) ==
    [heap |-> h, outcome |-> outcome, ret |-> ret, Flog |-> log,
     Fret |-> rets, cnt |-> cnt]

\* line 157 and the return, on the heap h3 left by line 156
Stmt157(slf, h3, xid, d, f) ==
    LET w == SetStrided(h3[d], 2, Rhs157(slf, h3[xid]))
    IN  IF w.err THEN Ended(h3, "ValueError", 0, f.log, f.rets, f.cnt)
        ELSE Ended([h3 EXCEPT ![d] = w.v], "ok", d, f.log, f.rets, f.cnt)

\* line 156, on the heap h2 left by line 155
Stmt156(slf, h2, xid, d, f) ==
    LET w == SetStrided(h2[d], 1, Rhs156(slf, h2[xid]))
    IN  IF w.err THEN Ended(h2, "ValueError", 0, f.log, f.rets, f.cnt)
        ELSE Stmt157(slf, [h2 EXCEPT ![d] = w.v], xid, d, f)

\* _equation( self , X , t ) with X the object xid of the heap h
equation(slf, h, xid, t, cnt) ==
    LET z  == zeros(h, xid)
        h1 == z.heap
        d  == z.id
        T  == Rhs155(slf, h1[xid])
    IN  IF T.err THEN Ended(h1, "ValueError", 0, <<>>, <<>>, cnt)
        ELSE IF ~slf.F.callable
        THEN Ended(h1, "TypeError", 0, <<>>, <<>>, cnt)
        ELSE LET f == AddForcing(slf, T, t, cnt)
                 w == SetStrided(h1[d], 0, f.v)
             IN  IF w.err
                 THEN Ended(h1, "ValueError", 0, f.log, f.rets, f.cnt)
                 ELSE Stmt156(slf, [h1 EXCEPT ![d] = w.v], xid, d, f)

(***************************************************************************)
(* The inputs: parameters, state vectors, times.                           *)
(***************************************************************************)
\* (a, b, G); the first is the default of __init__
Params ==
    {<<Q(1, 4), num(4), num(1)>>, <<num(0), num(4), num(1)>>,
     <<Q(1, 4), num(0), num(-2)>>, <<num(2), num(-1), num(0)>>}

\* (x, y, z) of one orbit
Orbits ==
    {<<num(0), num(0), num(0)>>, <<num(1), num(2), num(-3)>>,
     <<Q(-1, 2), num(3), num(2)>>}

\* the packed vectors of k orbits
RECURSIVE Packed(_)
Packed(k) ==
    IF k = 0 THEN {<<>>} ELSE {p \o o : p \in Packed(k - 1), o \in Orbits}

\* an incomplete last orbit
Tails == {<<>>, <<num(1)>>, <<num(1), num(2)>>}

States ==
    {p \o tl : p \in UNION {Packed(k) : k \in 0..MaxOrbits}, tl \in Tails}

\* quarter periods at which cyclic and linear are exact in the program
Times == {Quarter(q) : q \in {-1, 0, 1, 399, 425, 475}}

\* the inputs of the logged runs
DetStates ==
    {<<num(1), num(2), num(-3)>>,
     <<num(1), num(2), num(-3), num(0), num(0), num(0)>>,
     <<num(1), num(2), num(-3), Q(-1, 2), num(3), num(2)>>}

DetTimes == {Quarter(0), Quarter(425)}

\* the inputs of the direct evaluations of the forcings
\* times before, at and after tcc = 7300 = Quarter(400), and four
\* neighbouring np.float32 values, which are 1/128 apart at 124928
TFTimes ==
    {Quarter(q) : q \in {-400, -1, 0, 399, 400, 425, 475, 800}}
        \cup {Q(124928 * 128 + k, 128) : k \in 0..3}

(***************************************************************************)
(* The state machine: one constructed model, called by an integrator.      *)
(***************************************************************************)
NoCall ==
    [X |-> <<>>, t |-> num(0), xid |-> 0, outcome |-> "none", ret |-> 0,
     Flog |-> <<>>, Fret |-> <<>>]

\* the state after Lorenz84( a , b , G , F , size )
Init ==
    \E p \in Params, F \in Fargs, size \in 1..MaxSize :
        /\ self = init(p[1], p[2], p[3], F, size)
        /\ self0 = self
        /\ Farg = F
        /\ counter = 0
        /\ heap = <<>>
        /\ call = NoCall
        /\ hist = <<>>
        /\ tf = <<>>

\* the integrator holds X as the only live array and calls
\* self._equation( X , t )
Derivative(X, t) ==
    /\ self.F = UserCounter => counter < MaxCount
    /\ LET r == equation(self, <<X>>, 1, t, counter)
       IN  /\ heap' = r.heap
           /\ counter' = r.cnt
           /\ call' = [X |-> X, t |-> t, xid |-> 1, outcome |-> r.outcome,
                       ret |-> r.ret, Flog |-> r.Flog, Fret |-> r.Fret]
    /\ UNCHANGED <<self, self0, Farg>>

\* the array a call returned (none: the empty sequence)
Out == IF call.ret = 0 THEN <<>> ELSE heap[call.ret]

\* the integrator is synchronous: it calls when it holds no pending result
Call(X, t) ==
    /\ call.outcome = "none"
    /\ Derivative(X, t)
    /\ UNCHANGED <<hist, tf>>

\* the integrator uses what the call gave to advance its state and drops it
Advance ==
    /\ call.outcome # "none"
    /\ call' = NoCall
    /\ heap' = <<>>
    /\ UNCHANGED <<self, self0, Farg, counter, hist, tf>>

LoggedCall(X, t) ==
    /\ Len(hist) < MaxCalls
    /\ Derivative(X, t)
    /\ hist' = Append(hist, [X |-> X, t |-> t, outcome |-> call'.outcome,
                             out |-> IF call'.ret = 0 THEN <<>>
                                     ELSE heap'[call'.ret]])
    /\ UNCHANGED tf

\* a direct evaluation of Lorenz84.TimeForcing.<f>( t )
EvalForcing(f, t) ==
    /\ Len(tf) < MaxEvals
    /\ tf' = Append(tf, [f |-> f, t |-> t, val |-> Apply(f, t, 0).val])
    /\ UNCHANGED <<self, self0, Farg, counter, heap, call, hist>>

Next ==
    \/ \E X \in States, t \in Times : Call(X, t)
    \/ Advance

Spec == Init /\ [][Next]_vars

\* the default model parameters
DefaultParams == <<self.a, self.b, self.G>> = <<Q(1, 4), num(4), num(1)>>

\* the default parameters, every forcing, the largest orbit count
InitDet == Init /\ DefaultParams /\ self.size = MaxSize

NextDet == \E X \in DetStates, t \in DetTimes : LoggedCall(X, t)

SpecDet == InitDet /\ [][NextDet]_vars

\* the default model
InitTF == Init /\ DefaultParams /\ Farg = None /\ self.size = 1

NextTF == \E f \in {TFconstant, TFcyclic, TFlinear}, t \in TFTimes : EvalForcing(f, t)

SpecTF == InitTF /\ [][NextTF]_vars

(***************************************************************************)
(* Properties                                                              *)
(***************************************************************************)
Called   == call.outcome # "none"
Returned == call.outcome = "ok"

\* the entries 3i, 3i+1, 3i+2 (0-based) of the vector V
Slice3(V, i) == <<V[3 * i + 1], V[3 * i + 2], V[3 * i + 3]>>

\* the Lorenz-84 equations for one orbit o = (x, y, z) with the forcing Fv
Lorenz(slf, o, Fv) ==
    LET x == o[1]
        y == o[2]
        z == o[3]
    IN  <<add(sub(sub(neg(mul(y, y)), mul(z, z)), mul(slf.a, x)),
              mul(slf.a, Fv)),
          add(sub(sub(mul(x, y), mul(mul(slf.b, x), z)), y), slf.G),
          sub(add(mul(x, z), mul(mul(slf.b, x), y)), z)>>

\* the value of the resolved forcing at the time of the last call
ForcingAt(F, c) == IF F = UserCounter THEN c.Fret[1] ELSE Apply(F, c.t, 0).val

\* C1: a call with a packed state of length 3*N on a model whose forcing is
\* resolved returns a vector of the same length that holds, for each orbit i,
\* the three Lorenz-84 expressions of (x_i, y_i, z_i) at the indices 3i,
\* 3i+1, 3i+2.
C1_DerivativeLayout ==
    (Called /\ Len(call.X) = 3 * self.size /\ self.F.callable) =>
        /\ Returned
        /\ Len(Out) = Len(call.X)
        /\ \A i \in 0..(self.size - 1) :
              Slice3(Out, i) =
                  Lorenz(self, Slice3(call.X, i), ForcingAt(self.F, call))

C1_Witness ==
    /\ Returned
    /\ self.size = 2
    /\ Len(call.X) = 6
    /\ Slice3(call.X, 0) # Slice3(call.X, 1)
    /\ Slice3(Out, 0) # Slice3(Out, 1)
    /\ self.F = CyclicLinear
    /\ self.b = num(4)

\* C2: construction resolves F in priority order: a callable is kept as it
\* is (also one that is a str instance spelling a token), "cyclic" gives
\* TimeForcing.cyclic, "linear" gives TimeForcing.linear with tcc = 100*73,
\* "cyclic-linear" gives a function whose value is cyclic(t) + linear(t), an
\* absent F gives TimeForcing.constant.
C2_ForcingResolution ==
    /\ Farg.callable => self.F = Farg
    /\ Farg = Str("cyclic") => self.F = TFcyclic
    /\ Farg = Str("linear") => self.F = TFlinear
    /\ Farg = None => self.F = TFconstant
    /\ (Farg = Str("cyclic-linear") /\ Returned) =>
           call.Fret = <<add(cyclic(call.t), linear(call.t, num(100 * 73)))>>
    /\ (Farg = Str("linear") /\ Returned) =>
           call.Fret = <<linear(call.t, num(100 * 73))>>
    /\ (Farg = Str("cyclic") /\ Returned) => call.Fret = <<cyclic(call.t)>>
    /\ (Farg = None /\ Returned) => call.Fret = <<constant(call.t)>>

C2_Witness ==
    /\ Farg = Str("cyclic-linear")
    /\ Returned
    /\ call.t = Quarter(425)
    /\ call.Fret = <<Q(91, 8)>>

\* C3 (as claimed): every F that is neither callable nor one of the three
\* tokens resolves to TimeForcing.constant, so that a later call on a state
\* of length 3*N succeeds with F(t) = 6.
C3_FallbackIsConstant ==
    (/\ ~Farg.callable
     /\ ~(Farg.str /\ Farg.val \in Tokens)
     /\ Called
     /\ Len(call.X) = 3 * self.size) =>
        (self.F = TFconstant /\ Returned /\ call.Fret = <<num(6)>>)

\* C4 (as claimed): a call with len(state) # 3*N fails with a shape error
\* and returns nothing.
C4_ShapeMismatch ==
    (Called /\ Len(call.X) # 3 * self.size) =>
        (call.outcome = "ValueError" /\ call.ret = 0)

\* C6: a call has no side effect: the model's a, b, G, F and size are those
\* fixed at construction, the caller's state vector is unchanged, and the
\* vector returned is another object than the input.
C6_NoSideEffects ==
    /\ self = self0
    /\ Called => (heap[call.xid] = call.X)
    /\ Returned => (call.ret # call.xid /\ call.ret \in 1..Len(heap))

C6_Witness ==
    /\ Returned
    /\ Len(call.X) = 6
    /\ Out # call.X
    /\ \E j \in 1..6 : call.X[j] # num(0)

\* C8: the default-forced model of one orbit at (0, 0, 0) gives
\* (a*6, G, 0), whatever a, b, G and t.
C8_Origin ==
    (Called /\ Farg = None /\ self.size = 1
        /\ call.X = <<num(0), num(0), num(0)>>) =>
        (Returned /\ Out = <<mul(self.a, num(6)), self.G, num(0)>>)

C8_Witness ==
    /\ Returned
    /\ Farg = None
    /\ self.size = 1
    /\ call.X = <<num(0), num(0), num(0)>>
    /\ self.a = Q(1, 4)
    /\ self.G = num(-2)
    /\ Out = <<Q(3, 2), num(-2), num(0)>>

\* C10: a call that evaluates the orbits invokes F exactly once, with the
\* argument t, whatever the number of orbits, and the value it returned is
\* the forcing of the x-equation of every orbit.
C10_ForcingOnce ==
    Returned =>
        /\ call.Flog = <<call.t>>
        /\ Len(call.Fret) = 1
        /\ \A i \in 0..((Len(call.X) \div 3) - 1) :
              Out[3 * i + 1] =
                  Lorenz(self, Slice3(call.X, i), call.Fret[1])[1]

C10_Witness ==
    /\ Returned
    /\ Len(call.X) = 6
    /\ self.size = 2
    /\ self.F = UserCounter
    /\ call.Flog = <<call.t>>
    /\ counter = 1

\* the calls of a logged run that returned a vector under a forcing
\* without state of its own
Evaluated == {k \in 1..Len(hist) : hist[k].outcome = "ok"}

\* the vector the model of one orbit, same a, b, G and F, returns for the
\* orbit o alone at the time t
SingleOrbit(o, t) ==
    LET r == equation([self EXCEPT !.size = 1], <<o>>, 1, t, 0)
    IN  IF r.outcome = "ok" THEN r.heap[r.ret] ELSE <<>>

\* C5: orbits are independent: when two calls at the same time, on packed
\* states of the same length, agree on the three entries of orbit i, their
\* results agree at the indices 3i, 3i+1, 3i+2, and these equal what the
\* one-orbit model returns for (x_i, y_i, z_i) alone.
C5_OrbitIndependence ==
    self.F # UserCounter =>
        \A k \in Evaluated :
            \A i \in 0..((Len(hist[k].X) \div 3) - 1) :
                /\ Slice3(hist[k].out, i) =
                       SingleOrbit(Slice3(hist[k].X, i), hist[k].t)
                /\ \A m \in Evaluated :
                       (/\ hist[m].t = hist[k].t
                        /\ Len(hist[m].X) = Len(hist[k].X)
                        /\ Slice3(hist[m].X, i) = Slice3(hist[k].X, i)) =>
                           Slice3(hist[m].out, i) = Slice3(hist[k].out, i)

C5_Witness ==
    /\ self.F = CyclicLinear
    /\ self.size = 2
    /\ Len(hist) = 2
    /\ Evaluated = {1, 2}
    /\ hist[1].t = hist[2].t
    /\ Len(hist[1].X) = 6
    /\ Len(hist[2].X) = 6
    /\ Slice3(hist[1].X, 0) = Slice3(hist[2].X, 0)
    /\ Slice3(hist[1].X, 1) # Slice3(hist[2].X, 1)
    /\ Slice3(hist[1].out, 1) # Slice3(hist[2].out, 1)
    /\ Slice3(hist[1].out, 0) = Slice3(hist[2].out, 0)

LinearEvals == {k \in 1..Len(tf) : tf[k].f = TFlinear}

\* -2*(t - 7300)/7300 in exact arithmetic, for t = <<n, d>>
ExactRamp(t) == Q(-2 * (t[1] - 7300 * t[2]), 7300 * t[2])

\* what C9 says of each evaluation: a value at every time, 0 before tcc and
\* at tcc, and from tcc on the quotient -2*(t - tcc)/tcc (compared where the
\* format of t holds it)
LinearValues ==
    \A k \in LinearEvals :
        LET t == tf[k].t
            v == tf[k].val
        IN  /\ v[2] > 0
            /\ t[1] < 7300 * t[2] => v = num(0)
            /\ t = num(7300) => v = num(0)
            /\ (t[1] >= 7300 * t[2] /\ fl(ExactRamp(t)) = ExactRamp(t)) =>
                   v = ExactRamp(t)

\* C9 (as claimed): linear with the default tcc = 100*73 has a value at
\* every time, negative ones included: 0 before tcc and at tcc,
\* -2*(t - tcc)/tcc from tcc on, and t1 > t2 > tcc implies
\* linear(t1) < linear(t2) < 0.
C9_LinearStrict ==
    /\ LinearValues
    /\ \A k, m \in LinearEvals :
           (lt(tf[m].t, tf[k].t) /\ lt(num(7300), tf[m].t)) =>
               (lt(tf[k].val, tf[m].val) /\ lt(tf[m].val, num(0)))

\* C9 (amended): as claimed, but beyond tcc a later time gives a value that
\* is negative and not larger: t1 > t2 > tcc implies
\* linear(t1) <= linear(t2) < 0; neighbouring floating-point times can give
\* the same value.
C9_LinearMonotone ==
    /\ LinearValues
    /\ \A k, m \in LinearEvals :
           (lt(tf[m].t, tf[k].t) /\ lt(num(7300), tf[m].t)) =>
               (le(tf[k].val, tf[m].val) /\ lt(tf[m].val, num(0)))

\* two neighbouring times beyond tcc with the same value
C9_Witness ==
    /\ Len(tf) = 2
    /\ LinearEvals = {1, 2}
    /\ tf[1].t = Q(124928 * 128 + 1, 128)
    /\ tf[2].t = Q(124928 * 128 + 2, 128)
    /\ tf[1].val = Q(-2112019, 65536)
    /\ tf[2].val = tf[1].val

====
